---- MODULE Spec2Model ----
(***************************************************************************)
(* Secure path resolution of the video downloader MCP server               *)
(* (src/server.py): SecureConfigManager, PathValidator, LocationManager    *)
(* and the tool dispatcher handle_call_tool.                               *)
(*                                                                         *)
(* A Python str is a sequence of one-character strings; None is the        *)
(* one-element sequence <<"None">>, which no str equals.  The filesystem   *)
(* is POSIX: os.sep is "/".                                                *)
(***************************************************************************)
EXTENDS Integers, Sequences, FiniteSets, TLC

VARIABLES config, validator, locations_cache, fs, pc, call, result, validated, extractor,
          threads

vars == <<config, validator, locations_cache, fs, pc, call, result, validated, extractor, threads>>

(***************************************************************************)
(* Bounds of the model                                                     *)
(***************************************************************************)
\* longest string of the exhaustively enumerated candidates of validate_path
MaxLen == 3
\* longest string of the exhaustively enumerated relative paths and templates
MaxPart == 1
\* the max_filename_length of the user overrides that set one
SmallMax == 3

\* the number of threads that share a LocationManager
NumThreads == 2

(***************************************************************************)
(* Python values                                                           *)
(***************************************************************************)
None == <<"None">>

\* a configured value that is not a str (an integer of the TOML file)
NotAStr == <<"int">>

\* an exception that leaves the function
Raise(exception) == [raised |-> TRUE, exception |-> exception]

Sep == "/"

\* the null character, which a TLA+ string cannot hold
Nul == "nul"

\* str.startswith
StartsWith(s, p) == Len(p) <= Len(s) /\ SubSeq(s, 1, Len(p)) = p

\* str.endswith
EndsWith(s, p) == Len(p) <= Len(s) /\ SubSeq(s, Len(s) - Len(p) + 1, Len(s)) = p

\* the `in` operator on two str
Contains(s, p) == \E i \in 1..(Len(s) - Len(p) + 1) : SubSeq(s, i, i + Len(p) - 1) = p

\* str.rfind of one character, 1-based, 0 when absent
RFind(s, c) == IF \E i \in 1..Len(s) : s[i] = c
               THEN CHOOSE i \in 1..Len(s) : s[i] = c /\ \A j \in (i + 1)..Len(s) : s[j] # c
               ELSE 0

\* str.find of one character, 1-based, 0 when absent
Find(s, c) == IF \E i \in 1..Len(s) : s[i] = c
              THEN CHOOSE i \in 1..Len(s) : s[i] = c /\ \A j \in 1..(i - 1) : s[j] # c
              ELSE 0

\* str.lower, on the characters of the model that have a lower-case form
LowerChar(c) == IF c = "M" THEN "m" ELSE IF c = "A" THEN "a" ELSE c

Lower(s) == [i \in 1..Len(s) |-> LowerChar(s[i])]

\* str.lstrip of one character
RECURSIVE LStrip(_, _)
LStrip(s, c) == IF s # <<>> /\ Head(s) = c THEN LStrip(Tail(s), c) ELSE s

\* str.replace of one character by another
Replace(s, c, r) == [i \in 1..Len(s) |-> IF s[i] = c THEN r ELSE s[i]]

\* str.split(os.sep): the segments between separators, empty ones included
RECURSIVE SplitSep(_)
SplitSep(s) == LET i == Find(s, Sep) IN
               IF i = 0 THEN <<s>>
               ELSE <<SubSeq(s, 1, i - 1)>> \o SplitSep(SubSeq(s, i + 1, Len(s)))

(***************************************************************************)
(* os.path (posixpath)                                                     *)
(***************************************************************************)
\* os.path.isabs
IsAbs(s) == StartsWith(s, <<Sep>>)

\* os.path.join of two components
PathJoin(a, b) == IF IsAbs(b) THEN b
                  ELSE IF a = <<>> \/ EndsWith(a, <<Sep>>) THEN a \o b
                  ELSE a \o <<Sep>> \o b

\* os.path.basename
Basename(p) == SubSeq(p, RFind(p, Sep) + 1, Len(p))

\* os.path.splitext(p)[1]: from the last dot of the last component, unless
\* only dots precede it in that component
SplitExt(p) == LET sepIndex == RFind(p, Sep)
                   dotIndex == RFind(p, ".")
               IN IF dotIndex > sepIndex
                     /\ \E k \in (sepIndex + 1)..(dotIndex - 1) : p[k] # "."
                  THEN SubSeq(p, dotIndex, Len(p))
                  ELSE <<>>

HomeDir == <<"/", "h">>

Cwd == <<"/", "t", "m", "p">>

\* os.path.expanduser: "~" and "~/..." expand to $HOME, "~user" of an
\* unknown user and every other string are returned unchanged
ExpandUser(s) == IF s # <<>> /\ s[1] = "~" /\ (Len(s) = 1 \/ s[2] = Sep)
                 THEN HomeDir \o SubSeq(s, 2, Len(s))
                 ELSE s

\* an absolute path as the sequence of its non-empty segments
RECURSIVE NonEmpty(_)
NonEmpty(segs) == IF segs = <<>> THEN <<>>
                  ELSE IF Head(segs) = <<>> THEN NonEmpty(Tail(segs))
                  ELSE <<Head(segs)>> \o NonEmpty(Tail(segs))

FsPath(s) == NonEmpty(SplitSep(s))

\* the str of an absolute path given by its segments
RECURSIVE ToStr(_)
ToStr(segs) == IF segs = <<>> THEN <<Sep>>
               ELSE IF Len(segs) = 1 THEN <<Sep>> \o segs[1]
               ELSE ToStr(SubSeq(segs, 1, Len(segs) - 1)) \o <<Sep>> \o segs[Len(segs)]

Parent(segs) == IF segs = <<>> THEN <<>> ELSE SubSeq(segs, 1, Len(segs) - 1)

\* os.path.normpath on the segments of an absolute path
RECURSIVE NormSegs(_, _)
NormSegs(done, rest) ==
    IF rest = <<>> THEN done
    ELSE IF Head(rest) = <<>> \/ Head(rest) = <<".">> THEN NormSegs(done, Tail(rest))
    ELSE IF Head(rest) = <<".", ".">> THEN NormSegs(Parent(done), Tail(rest))
    ELSE NormSegs(Append(done, Head(rest)), Tail(rest))

NoSeen == [x \in {} |-> x]

\* posixpath._joinrealpath: resolve `rest` segment by segment on top of the
\* resolved `path`, following symbolic links; `seen` maps a link to its
\* resolution, or marks it as being resolved (a loop when met again)
RECURSIVE JoinRealPath(_, _, _, _)
JoinRealPath(links, path, rest, seen) ==
    IF rest = <<>> THEN [path |-> path, ok |-> TRUE, seen |-> seen]
    ELSE LET name == Head(rest)
             tl == Tail(rest)
             newpath == Append(path, name)
         IN IF name = <<>> \/ name = <<".">> THEN JoinRealPath(links, path, tl, seen)
            ELSE IF name = <<".", ".">> THEN JoinRealPath(links, Parent(path), tl, seen)
            ELSE IF newpath \notin DOMAIN links THEN JoinRealPath(links, newpath, tl, seen)
            ELSE IF newpath \in DOMAIN seen
                 THEN IF seen[newpath].done
                      THEN JoinRealPath(links, seen[newpath].path, tl, seen)
                      ELSE [path |-> newpath \o tl, ok |-> FALSE, seen |-> seen]
            ELSE LET target == links[newpath]
                     sub == JoinRealPath(links,
                                         IF IsAbs(target) THEN <<>> ELSE path,
                                         SplitSep(target),
                                         (newpath :> [done |-> FALSE, path |-> <<>>]) @@ seen)
                 IN IF ~sub.ok
                    THEN [path |-> sub.path \o tl, ok |-> FALSE, seen |-> sub.seen]
                    ELSE JoinRealPath(links, sub.path, tl,
                                      (newpath :> [done |-> TRUE, path |-> sub.path]) @@ sub.seen)

\* os.path.realpath (not strict), as the segments of the canonical path
RealSegs(links, s) ==
    LET abs == IF IsAbs(s) THEN s ELSE PathJoin(Cwd, s)
        r == JoinRealPath(links, <<>>, SplitSep(abs), NoSeen)
    IN IF r.ok THEN r.path ELSE NormSegs(<<>>, r.path)

\* os.path.realpath (not strict)
Realpath(links, s) == ToStr(RealSegs(links, s))

(***************************************************************************)
(* PathValidator                                                           *)
(***************************************************************************)
NoError == [kind |-> "None", info |-> <<>>]

Accepted(p) == [valid |-> TRUE, path |-> p, error |-> NoError]

Rejected(kind, info) == [valid |-> FALSE, path |-> None, error |-> [kind |-> kind, info |-> info]]

dangerous_patterns == { <<".", ".", "/">>, <<".", ".", "\\">>,
                        <<".", ".", "\\", "\\">>, <<".", ".", "/", "/">> }

\* a screen that knows the forward-slash patterns only
contains_traversal_slash_only(path) ==
    \E pattern \in { <<".", ".", "/">>, <<".", ".", "/", "/">> } : Contains(Lower(path), pattern)

\* a screen that matches two dots wherever they are
contains_traversal_any_dotdot(path) == Contains(path, <<".", ".">>)

\* PathValidator._contains_traversal
contains_traversal(path) == \E pattern \in dangerous_patterns : Contains(Lower(path), pattern)

\* a screen that is applied whatever the flag says
TraversalScreen_ignores_flag(v, path) == contains_traversal(path)

\* step 1 of validate_path: the textual traversal screen
TraversalScreen(v, path) == v.block_traversal /\ contains_traversal(path)

\* a containment test that was left out
StaysWithin_always(normalized, base_real) == TRUE

\* a containment test that forgets the separator after the base
StaysWithin_no_sep(normalized, base_real) == StartsWith(normalized, base_real)

\* an absolute-path test that was left out
AbsoluteCandidate_dropped(path) == FALSE

\* step 2 of validate_path: the candidate is an absolute path
AbsoluteCandidate(path) == IsAbs(path)

\* the containment test of validate_path
StaysWithin(normalized, base_real) ==
    StartsWith(normalized, base_real \o <<Sep>>) \/ normalized = base_real

\* a length test that rejects a name of exactly the maximum length
TooLong_off_by_one(v, filename) == Len(filename) >= v.max_filename_length

\* the filename length test of validate_path
TooLong(v, filename) == Len(filename) > v.max_filename_length

\* the extension the allow-list is asked about
ExtOf(filename) == LStrip(Lower(SplitExt(filename)), ".")

\* an extension test that does not lower-case the extension
ExtensionRejected_case_sensitive(v, filename) ==
    /\ v.allowed_extensions # {}
    /\ LStrip(SplitExt(filename), ".") # <<>>
    /\ LStrip(SplitExt(filename), ".") \notin v.allowed_extensions

\* the extension test of validate_path
ExtensionRejected(v, filename) ==
    /\ v.allowed_extensions # {}
    /\ ExtOf(filename) # <<>>
    /\ ExtOf(filename) \notin v.allowed_extensions

\* os.path.realpath raises ValueError (embedded null byte) when it is to
\* lstat a component that holds the null character
RealpathRaises(s) == \E i \in 1..Len(s) : s[i] = Nul

\* a validate_path that tests the extension before the filename length
validate_path_extension_first(v, links, path, base_dir) ==
    IF TraversalScreen(v, path)
    THEN Rejected("PathTraversalDetected", <<>>)
    ELSE LET base == ExpandUser(base_dir) IN
         IF AbsoluteCandidate(path) THEN Rejected("AbsolutePathRejected", <<>>)
         ELSE IF RealpathRaises(PathJoin(base, path))
         THEN Rejected("PathValidationError", <<"ValueError">>)
         ELSE LET normalized == Realpath(links, PathJoin(base, path))
                  filename == Basename(normalized)
              IN IF ~StaysWithin(normalized, Realpath(links, base))
                 THEN Rejected("PathEscapesBase", <<base>>)
                 ELSE IF ExtensionRejected(v, filename)
                 THEN Rejected("ExtensionNotAllowed", <<ExtOf(filename)>>)
                 ELSE IF TooLong(v, filename)
                 THEN Rejected("FilenameTooLong", <<v.max_filename_length>>)
                 ELSE Accepted(normalized)

\* PathValidator.validate_path, v the validator's fields; an exception
\* raised inside the try is returned as a path validation error
validate_path(v, links, path, base_dir) ==
    IF TraversalScreen(v, path)
    THEN Rejected("PathTraversalDetected", <<>>)
    ELSE LET base == ExpandUser(base_dir) IN
         IF AbsoluteCandidate(path) THEN Rejected("AbsolutePathRejected", <<>>)
         ELSE IF RealpathRaises(PathJoin(base, path))
         THEN Rejected("PathValidationError", <<"ValueError">>)
         ELSE LET full_path == PathJoin(base, path)
                  normalized == Realpath(links, full_path)
                  base_real == Realpath(links, base)
                  filename == Basename(normalized)
              IN IF ~StaysWithin(normalized, base_real)
                 THEN Rejected("PathEscapesBase", <<base>>)
                 ELSE IF TooLong(v, filename)
                 THEN Rejected("FilenameTooLong", <<v.max_filename_length>>)
                 ELSE IF ExtensionRejected(v, filename)
                 THEN Rejected("ExtensionNotAllowed", <<ExtOf(filename)>>)
                 ELSE Accepted(normalized)

\* the backquote character, which a TLA+ string cannot hold
Backquote == "bq"

dangerous_chars == <<"|", "&", ";", "$", Backquote, ">", "<">>

\* PathValidator.sanitize_template_vars
RECURSIVE SanitizeFrom(_, _)
SanitizeFrom(s, k) == IF k > Len(dangerous_chars) THEN s
                      ELSE SanitizeFrom(Replace(s, dangerous_chars[k], "_"), k + 1)

\* a sanitizer that turns the pipe into a semicolon and the other dangerous
\* characters into underscores
sanitize_template_vars_pipe_to_semicolon(template) ==
    [i \in 1..Len(template) |->
        IF template[i] = "|" THEN ";"
        ELSE IF \E k \in 1..Len(dangerous_chars) : template[i] = dangerous_chars[k] THEN "_"
        ELSE template[i]]

\* a sanitizer that takes the dangerous characters out of the string
sanitize_template_vars_strips(template) ==
    LET Harmless(c) == \A k \in 1..Len(dangerous_chars) : c # dangerous_chars[k]
    IN  SelectSeq(template, Harmless)

sanitize_template_vars(template) == SanitizeFrom(template, 1)

(***************************************************************************)
(* SecureConfigManager: the configuration is a tree, a mapping of keys to  *)
(* nodes, a node being a nested mapping (dict) or a value                  *)
(***************************************************************************)
Dict(items) == [dict |-> TRUE, items |-> items, value |-> <<>>]

Val(v) == [dict |-> FALSE, items |-> <<>>, value |-> v]

S_default_location == <<"~", "/", "v", "i", "d", "e", "o", "-", "d", "o", "w", "n", "l", "o", "a", "d", "e", "r">>

S_default_template == <<"%", "(", "t", "i", "t", "l", "e", ")", "s", ".", "%", "(", "e", "x", "t", ")", "s">>

default_extensions == {
    <<"m", "p", "4">>, <<"w", "e", "b", "m">>, <<"m", "k", "v">>, <<"a", "v", "i">>,
    <<"m", "o", "v">>, <<"m", "4", "a">>, <<"m", "p", "3">>, <<"a", "a", "c">>,
    <<"o", "g", "g">>, <<"w", "a", "v">>, <<"v", "t", "t">>, <<"s", "r", "t">>,
    <<"a", "s", "s">>, <<"s", "s", "a">> }

DefaultMaxFilenameLength == 255

\* the built-in defaults of _load_config
default_config ==
    ( "download_locations" :> Dict("default" :> Val(S_default_location)) ) @@
    ( "security" :> Dict( ("enforce_location_restrictions" :> Val(TRUE)) @@
                          ("max_filename_length" :> Val(DefaultMaxFilenameLength)) @@
                          ("allowed_extensions" :> Val(default_extensions)) @@
                          ("block_path_traversal" :> Val(TRUE)) ) ) @@
    ( "ytdlp" :> Dict("default_filename_template" :> Val(S_default_template)) )

\* a merge of the top level only: a key of the update replaces the base's
deep_merge_shallow(base, update) ==
    [key \in DOMAIN base \cup DOMAIN update |->
        IF key \in DOMAIN update THEN update[key] ELSE base[key]]

\* SecureConfigManager._deep_merge on the items of two mappings
RECURSIVE deep_merge(_, _)
deep_merge(base, update) ==
    [key \in DOMAIN base \cup DOMAIN update |->
        IF key \notin DOMAIN update THEN base[key]
        ELSE IF key \in DOMAIN base /\ base[key].dict /\ update[key].dict
             THEN Dict(deep_merge(base[key].items, update[key].items))
             ELSE update[key]]

(***************************************************************************)
(* _deep_merge on objects: a heap maps the identity of a dict object to    *)
(* its slots, a slot holding a reference to a dict object or a value. The  *)
(* identity of an object is the tree it belongs to and its path in it.     *)
(***************************************************************************)
Slot(node, id) == IF node.dict THEN [dict |-> TRUE, ref |-> id, value |-> <<>>]
                  ELSE [dict |-> FALSE, ref |-> <<>>, value |-> node.value]

\* the paths of the mappings of a tree, the tree itself at the empty path
RECURSIVE DictPaths(_)
DictPaths(items) ==
    {<<>>} \cup UNION { { <<k>> \o q : q \in DictPaths(items[k].items) } :
                          k \in { k \in DOMAIN items : items[k].dict } }

RECURSIVE ItemsAt(_, _)
ItemsAt(items, path) == IF path = <<>> THEN items
                        ELSE ItemsAt(items[Head(path)].items, Tail(path))

\* the objects of a tree, as the caller holds it
Store(tag, items) ==
    [ id \in { <<tag>> \o q : q \in DictPaths(items) } |->
        [ k \in DOMAIN ItemsAt(items, Tail(id)) |-> Slot(ItemsAt(items, Tail(id))[k], id \o <<k>>) ] ]

\* the tree an object holds
RECURSIVE Load(_, _)
Load(heap, id) ==
    [ k \in DOMAIN heap[id] |-> IF heap[id][k].dict THEN Dict(Load(heap, heap[id][k].ref))
                                ELSE Val(heap[id][k].value) ]

\* the keys of a mapping, in the order they are iterated
RECURSIVE KeySeq(_)
KeySeq(keys) == IF keys = {} THEN <<>>
                ELSE LET k == CHOOSE k \in keys : TRUE IN <<k>> \o KeySeq(keys \ {k})

\* the assignment result[key] = slot, on the object id
Put(heap, id, key, slot) == [heap EXCEPT ![id] = (key :> slot) @@ heap[id]]

\* a copy that is the object itself
DictCopy_alias(heap, obj, fresh) == [heap |-> heap, id |-> obj]

\* base.copy(): a new object with the slots of obj
DictCopy(heap, obj, fresh) == [heap |-> (fresh :> heap[obj]) @@ heap, id |-> fresh]

\* SecureConfigManager._deep_merge on objects; `fresh` is the identity the
\* copy gets. Yields the heap after the call and the object returned.
RECURSIVE heap_deep_merge(_, _, _, _)
RECURSIVE MergeKeys(_, _, _, _)
MergeKeys(heap, merged, update, keys) ==
    IF keys = <<>> THEN [heap |-> heap, id |-> merged]
    ELSE LET key == Head(keys)
             value == heap[update][key]
         IN IF key \in DOMAIN heap[merged] /\ heap[merged][key].dict /\ value.dict
            THEN LET m == heap_deep_merge(heap, heap[merged][key].ref, value.ref, merged \o <<key>>)
                 IN MergeKeys(Put(m.heap, merged, key, [dict |-> TRUE, ref |-> m.id, value |-> <<>>]),
                              merged, update, Tail(keys))
            ELSE MergeKeys(Put(heap, merged, key, value), merged, update, Tail(keys))

heap_deep_merge(heap, base, update, fresh) ==
    LET copy == DictCopy(heap, base, fresh)
    IN MergeKeys(copy.heap, copy.id, update, KeySeq(DOMAIN heap[update]))

\* _deep_merge(base, update) on two trees the caller holds: the tree
\* returned, and the base tree as the caller finds it afterwards
merge_trees(base, update) ==
    LET m == heap_deep_merge(Store("base", base) @@ Store("update", update),
                             <<"base">>, <<"update">>, <<"result">>)
    IN [ merged |-> Load(m.heap, m.id),
         base |-> Load(m.heap, <<"base">>) ]

\* the Python value of a node: the mapping of a dict, the value of a leaf
ValueOf(node) == IF node.dict THEN node.items ELSE node.value

\* a walk that returns the value it has reached when the current node is
\* not a mapping
RECURSIVE GetFrom_keeps_leaf(_, _, _)
GetFrom_keeps_leaf(node, keys, default) ==
    IF keys = <<>> \/ ~node.dict THEN ValueOf(node)
    ELSE IF Head(keys) \in DOMAIN node.items
         THEN GetFrom_keeps_leaf(node.items[Head(keys)], Tail(keys), default)
         ELSE default

\* SecureConfigManager.get; keys is path.split('.')
RECURSIVE GetFrom(_, _, _)
GetFrom(node, keys, default) ==
    IF keys = <<>> THEN ValueOf(node)
    ELSE IF node.dict /\ Head(keys) \in DOMAIN node.items
         THEN GetFrom(node.items[Head(keys)], Tail(keys), default)
         ELSE default

ConfigGet(cfg, keys, default) == GetFrom(Dict(cfg), keys, default)

\* a dotted path is a sequence of tokens, the dot or a name; str.split('.')
\* gives the segments between the dots, empty ones included
RECURSIVE SplitDot(_)
SplitDot(s) == LET i == Find(s, ".") IN
               IF i = 0 THEN <<s>>
               ELSE <<SubSeq(s, 1, i - 1)>> \o SplitDot(SubSeq(s, i + 1, Len(s)))

\* path.split('.') as keys: the name of a one-name segment; an empty
\* segment or a run of several names is a key that no mapping holds
DottedKeys(path) ==
    LET segments == SplitDot(path)
    IN [i \in 1..Len(segments) |->
           IF Len(segments[i]) = 1 THEN segments[i][1] ELSE "(other)"]

\* SecureConfigManager.get(path, default)
get(cfg, path, default) == ConfigGet(cfg, DottedKeys(path), default)

\* SecureConfigManager._load_config: the defaults when there is no user
\* file, the deep merge of the defaults and the user's tree otherwise
load_config(user) == IF user.exists THEN deep_merge(default_config, user.tree)
                     ELSE default_config

S_tmp_dl == <<"/", "t", "m", "p", "/", "d", "l">>

S_tmp_lnk == <<"/", "t", "m", "p", "/", "l", "n", "k">>

S_tmp_dl2 == <<"/", "t", "m", "p", "/", "d", "l", "2">>

S_etc == <<"/", "e", "t", "c">>

S_ro == <<"/", "r", "o">>

S_ro_x == <<"/", "r", "o", "/", "x">>

TestExtensions == { <<"a">>, <<"m">>, <<"m", "p", "4">> }

\* a user file that sets the locations, the filename length, the allow-list
\* and the traversal flag
UserTree(block, exts) ==
    ( "download_locations" :> Dict( ("default" :> Val(S_tmp_dl)) @@ ("ro" :> Val(S_ro_x)) @@
                                    ("sys" :> Val(S_etc)) ) ) @@
    ( "security" :> Dict( ("max_filename_length" :> Val(SmallMax)) @@
                          ("allowed_extensions" :> Val(exts)) @@
                          ("block_path_traversal" :> Val(block)) ) )

\* a user file that sets the locations only: a directory, a symbolic link
\* to it, and a path relative to the working directory
LocationsOnlyTree ==
    "download_locations" :> Dict( ("default" :> Val(S_tmp_dl)) @@ ("lnk" :> Val(S_tmp_lnk)) @@
                                  ("rel" :> Val(<<"d", "l">>)) )

\* a user file whose security table sets one key
SecurityOnlyTree == "security" :> Dict("block_path_traversal" :> Val(FALSE))

\* a user file whose default location is a number
IllTypedTree == "download_locations" :> Dict("default" :> Val(NotAStr))

NoUserFile == [exists |-> FALSE, tree |-> <<>>]

UserConfigs == {NoUserFile, [exists |-> TRUE, tree |-> LocationsOnlyTree],
                [exists |-> TRUE, tree |-> SecurityOnlyTree]} \cup
               { [exists |-> TRUE, tree |-> UserTree(block, exts)] :
                    block \in BOOLEAN, exts \in {{}, TestExtensions} }

\* PathValidator.__init__
PathValidatorInit(cfg) ==
    [ allowed_extensions |-> ConfigGet(cfg, <<"security", "allowed_extensions">>, {}),
      max_filename_length |-> ConfigGet(cfg, <<"security", "max_filename_length">>, 255),
      block_traversal |-> ConfigGet(cfg, <<"security", "block_path_traversal">>, TRUE) ]

(***************************************************************************)
(* The filesystem: the directories, the symbolic links (link -> target     *)
(* string), the directories the process cannot write to, and the number    *)
(* of os.makedirs calls it has served                                      *)
(***************************************************************************)
Prefixes(segs) == { SubSeq(segs, 1, k) : k \in 0..Len(segs) }

InitialFs ==
    [ dirs |-> { <<>>, FsPath(Cwd), FsPath(S_tmp_dl), FsPath(S_tmp_dl2), FsPath(S_etc),
                 FsPath(HomeDir), FsPath(S_ro) },
      links |-> ( Append(FsPath(S_tmp_dl), <<"o">>) :> S_etc ) @@
                ( Append(FsPath(S_tmp_dl), <<"i">>) :> <<"a">> ) @@
                ( Append(FsPath(S_tmp_dl), <<"s">>) :> S_tmp_dl2 ) @@
                ( FsPath(S_tmp_lnk) :> S_tmp_dl ),
      readonly |-> { <<>>, FsPath(S_etc), FsPath(S_ro) },
      makedirs |-> 0 ]

\* the deepest existing directory on the way to a canonical path
NearestDir(f, segs) ==
    CHOOSE d \in Prefixes(segs) \cap f.dirs :
        \A e \in Prefixes(segs) \cap f.dirs : Len(e) <= Len(d)

\* os.makedirs(path, exist_ok=True) does not raise
MakedirsOk(f, path) ==
    LET segs == RealSegs(f.links, path)
    IN segs \in f.dirs \/ NearestDir(f, segs) \notin f.readonly

\* the filesystem after os.makedirs(path, exist_ok=True)
Makedirs(f, path) ==
    IF MakedirsOk(f, path)
    THEN [f EXCEPT !.dirs = @ \cup Prefixes(RealSegs(f.links, path)), !.makedirs = @ + 1]
    ELSE [f EXCEPT !.makedirs = @ + 1]

\* os.access(path, os.W_OK)
AccessW(f, path) ==
    LET segs == RealSegs(f.links, path)
    IN segs \in f.dirs /\ segs \notin f.readonly

(***************************************************************************)
(* LocationManager                                                         *)
(***************************************************************************)
NoCache == [none |-> TRUE, locations |-> <<>>]

\* the order in which the configured locations are iterated
KeyOrder == <<"default", "ro", "sys", "lnk", "rel">>

\* LocationManager._build_locations: the entry of one location, on the
\* filesystem f it is built on
LocationEntry(f, path) ==
    LET expanded_path == ExpandUser(path)
    IN [ path |-> expanded_path,
         original |-> path,
         writable |-> MakedirsOk(f, expanded_path)
                      /\ AccessW(Makedirs(f, expanded_path), expanded_path) ]

\* a build that keeps the writable locations only
RECURSIVE BuildFrom_drops_unwritable(_, _, _, _)
BuildFrom_drops_unwritable(configured, k, locations, f) ==
    IF k > Len(KeyOrder) THEN [locations |-> locations, fs |-> f, raised |-> FALSE]
    ELSE IF KeyOrder[k] \notin DOMAIN configured
            \/ ~LocationEntry(f, ValueOf(configured[KeyOrder[k]])).writable
         THEN BuildFrom_drops_unwritable(configured, k + 1, locations,
                 IF KeyOrder[k] \in DOMAIN configured
                 THEN Makedirs(f, ExpandUser(ValueOf(configured[KeyOrder[k]]))) ELSE f)
         ELSE BuildFrom_drops_unwritable(configured, k + 1,
                 (KeyOrder[k] :> LocationEntry(f, ValueOf(configured[KeyOrder[k]]))) @@ locations,
                 Makedirs(f, ExpandUser(ValueOf(configured[KeyOrder[k]]))))

\* LocationManager._build_locations: the loop over the configured
\* locations from the k-th on; yields the mapping and the filesystem left,
\* or raises: os.path.expanduser, which is outside the try, raises
\* TypeError for a path that is not a str
RECURSIVE BuildFrom(_, _, _, _)
BuildFrom(configured, k, locations, f) ==
    IF k > Len(KeyOrder) THEN [locations |-> locations, fs |-> f, raised |-> FALSE]
    ELSE IF KeyOrder[k] \notin DOMAIN configured
         THEN BuildFrom(configured, k + 1, locations, f)
         ELSE IF ValueOf(configured[KeyOrder[k]]) = NotAStr
         THEN [locations |-> locations, fs |-> f, raised |-> TRUE]
         ELSE LET path == ValueOf(configured[KeyOrder[k]])
              IN BuildFrom(configured, k + 1,
                           (KeyOrder[k] :> LocationEntry(f, path)) @@ locations,
                           Makedirs(f, ExpandUser(path)))

build_locations(cfg, f) ==
    BuildFrom(ConfigGet(cfg, <<"download_locations">>, <<>>), 1, <<>>, f)

\* the cache that holds a mapping just built, and the filesystem left; the
\* cache stays empty when the build raised
Cached(b) == IF b.raised THEN [cache |-> NoCache, fs |-> b.fs, raised |-> TRUE]
             ELSE [cache |-> [none |-> FALSE, locations |-> b.locations], fs |-> b.fs,
                   raised |-> FALSE]

\* a get_locations that builds the mapping at every call
get_locations_rebuilds(cfg, cache, f) == Cached(build_locations(cfg, f))

\* LocationManager.get_locations: the cache and the filesystem after the
\* call; the value returned is the cache's mapping
get_locations(cfg, cache, f) ==
    IF cache.none
    THEN Cached(build_locations(cfg, f))
    ELSE [cache |-> cache, fs |-> f, raised |-> FALSE]

\* a validate_location that does not look at the writable flag
validate_location_ignores_writable(locations, location_id) ==
    IF location_id \notin DOMAIN locations
    THEN Rejected("UnknownLocation", <<DOMAIN locations>>)
    ELSE Accepted(locations[location_id].path)

\* a validate_location that falls back to the default location
validate_location_fallback(locations, location_id) ==
    IF location_id \notin DOMAIN locations
    THEN Accepted(locations["default"].path)
    ELSE IF ~locations[location_id].writable
    THEN Rejected("LocationNotWritable", <<>>)
    ELSE Accepted(locations[location_id].path)

\* LocationManager.validate_location, on the mapping get_locations returned
validate_location(locations, location_id) ==
    IF location_id \notin DOMAIN locations
    THEN Rejected("UnknownLocation", <<DOMAIN locations>>)
    ELSE IF ~locations[location_id].writable
    THEN Rejected("LocationNotWritable", <<>>)
    ELSE Accepted(locations[location_id].path)

\* Python truthiness of an Optional[str]
Truthy(s) == s # None /\ s # <<>>

\* a composition that forgets the relative path when there is a template
full_relative_template_only(cfg, relative_path, filename_template) ==
    IF Truthy(filename_template) THEN filename_template
    ELSE IF Truthy(relative_path) THEN relative_path
    ELSE ConfigGet(cfg, <<"ytdlp", "default_filename_template">>, S_default_template)

\* LocationManager.construct_download_path: the candidate before it is
\* sanitized
full_relative(cfg, relative_path, filename_template) ==
    IF Truthy(relative_path)
    THEN IF Truthy(filename_template)
         THEN PathJoin(relative_path, filename_template)
         ELSE relative_path
    ELSE IF Truthy(filename_template) THEN filename_template
    ELSE ConfigGet(cfg, <<"ytdlp", "default_filename_template">>, S_default_template)

NotValidated == [called |-> FALSE, path |-> None, base_dir |-> None]

\* LocationManager.construct_download_path, on the mapping get_locations
\* returned: the result and the call of validate_path it made, if any
construct_download_path(cfg, v, locations, links, location_id, relative_path, filename_template) ==
    LET loc == validate_location(locations, location_id)
        candidate == sanitize_template_vars(full_relative(cfg, relative_path, filename_template))
    IN IF ~loc.valid
       THEN [result |-> Rejected(loc.error.kind, loc.error.info), validated |-> NotValidated]
       ELSE [result |-> validate_path(v, links, candidate, loc.path),
             validated |-> [called |-> TRUE, path |-> candidate, base_dir |-> loc.path]]

(***************************************************************************)
(* The tool dispatcher and the media extractor                             *)
(***************************************************************************)
ToolNames == { "check_ytdlp_support", "get_video_info", "get_video_formats",
               "download_video", "analyze_webpage", "extract_media_patterns" }

ExtractorIdle == [invoked |-> FALSE, operation |-> "none", output_path |-> None]

\* dict.get(key): None when the key is absent
ArgGet(arguments, key) == IF key \in DOMAIN arguments THEN arguments[key] ELSE None

\* YtDlpExtractor.download_video: the process is started with -o output_path
\* when one is given; `ok` is the exit status of the process
download_video(output_path, ok) ==
    [ extractor |-> [invoked |-> TRUE, operation |-> "download_video", output_path |-> output_path],
      response |-> [raised |-> FALSE, success |-> ok,
                    keys |-> IF ok THEN {"success", "stdout", "stderr"}
                             ELSE {"success", "error", "stdout", "stderr"}] ]

\* handle_call_tool: the extractor invocation and the response; `ok` is the
\* outcome of the external collaborator (extractor process, HTTP fetch)
handle_call_tool(name, arguments, ok) ==
    IF name \in ToolNames /\ "url" \notin DOMAIN arguments
    THEN [ extractor |-> ExtractorIdle,
           response |-> [raised |-> TRUE, success |-> FALSE, keys |-> {}] ]
    ELSE IF name = "download_video"
    THEN download_video(ArgGet(arguments, "output_path"), ok)
    ELSE IF name \in {"check_ytdlp_support", "get_video_info", "get_video_formats"}
    THEN [ extractor |-> [invoked |-> TRUE, operation |-> "extract_info", output_path |-> None],
           response |-> [raised |-> FALSE, success |-> ok,
                         keys |-> IF ok THEN {"success"} ELSE {"success", "error"}] ]
    ELSE IF name \in {"analyze_webpage", "extract_media_patterns"}
    THEN [ extractor |-> ExtractorIdle,
           response |-> [raised |-> FALSE, success |-> ok,
                         keys |-> IF ok THEN {"success", "metadata"} ELSE {"success", "error"}] ]
    ELSE [ extractor |-> ExtractorIdle,
           response |-> [raised |-> TRUE, success |-> FALSE, keys |-> {}] ]

(***************************************************************************)
(* The inputs                                                              *)
(***************************************************************************)
Alphabet == {".", "/", "\\", "a", "o", "M"}

Strings(n) == UNION { [1..k -> Alphabet] : k \in 0..n }

\* a plain name of n characters
NameOfLen(n) == [i \in 1..n |-> "a"]

S_clips == <<"c", "l", "i", "p", "s">>

S_movie_mp4 == <<"m", "o", "v", "i", "e", ".", "m", "p", "4">>

S_dotdot_etc == <<".", ".", "/", ".", ".", "/", "e", "t", "c">>

S_passwd == <<"p", "a", "s", "s", "w", "d">>

S_clip_mp4 == <<"c", "l", "i", "p", ".", "m", "p", "4">>

S_payload_sh == <<"p", "a", "y", "l", "o", "a", "d", ".", "s", "h">>

S_subdir == <<"s", "u", "b", "d", "i", "r">>

S_legacy == <<"/", "t", "m", "p", "/", "l", "e", "g", "a", "c", "y", "_", "t", "e", "s", "t", ".", "m", "p", "4">>

S_etc_passwd3 == <<".", ".", "/", ".", ".", "/", ".", ".", "/", "e", "t", "c", "/", "p", "a", "s", "s", "w", "d">>

S_abs_trav == <<"/", ".", ".", "/", "e", "t", "c">>

S_tmp_dl_clips_movie == <<"/", "t", "m", "p", "/", "d", "l", "/", "c", "l", "i", "p", "s", "/", "m", "o", "v", "i", "e", ".", "m", "p", "4">>

S_a_mp4 == <<"a", ".", "m", "p", "4">>

S_s_x_mp4 == <<"s", "/", "x", ".", "m", "p", "4">>

S_i_a_a == <<"i", "/", "a", ".", "a">>

S_pipe == <<"a", "|", "b", ";", "c">>

S_dots_sep == <<".", ".", ".", "/">>

S_my_file_mp4 == <<"m", "y", ".", ".", "f", "i", "l", "e", ".", "m", "p", "4">>

S_a_up_b_mp4 == <<"a", "/", ".", ".", "/", "b", ".", "m", "p", "4">>

\* the candidates of validate_path
PathInputs == Strings(MaxLen) \cup
              { S_clip_mp4, S_payload_sh, S_a_mp4, S_s_x_mp4, S_i_a_a, S_abs_trav, S_dots_sep,
                S_default_template, PathJoin(S_clips, S_movie_mp4),
                <<"a", Nul, ".", "a">>, <<Sep, Nul>>, <<".", ".", Sep, Nul>>,
                S_my_file_mp4, S_a_up_b_mp4, <<"o", "/", "a", ".", "o">>,
                NameOfLen(SmallMax), NameOfLen(SmallMax + 1),
                PathJoin(<<"a">>, NameOfLen(SmallMax)), PathJoin(<<"a">>, NameOfLen(SmallMax + 1)) }

\* the base directories of validate_path
BaseDirs == { S_tmp_dl, S_tmp_lnk, <<"~", "/", "v">> }

LocationIds == { "default", "ro", "sys", "nonexistent" }

\* the relative_path arguments of construct_download_path
RelativeInputs == Strings(MaxPart) \cup
                  { None, S_clips, S_subdir, S_dotdot_etc, S_etc_passwd3, S_etc, S_pipe }

\* the filename_template arguments of construct_download_path
TemplateInputs == Strings(MaxPart) \cup
                  { None, S_movie_mp4, S_passwd, S_default_template, S_a_mp4, S_legacy,
                    NameOfLen(SmallMax), NameOfLen(SmallMax + 1) }

\* the templates handed to sanitize_template_vars
SanitizeInputs ==
    UNION { [1..k -> { dangerous_chars[i] : i \in 1..Len(dangerous_chars) } \cup {"_", "a"}] :
                k \in 0..(MaxPart + 1) } \cup
                  { S_pipe, S_default_template, PathJoin(S_pipe, S_default_template) }

P_security_max_x == <<"security", ".", "max_filename_length", ".", "x">>

\* the dotted paths over the given names, of at most MaxLen tokens
DottedPaths(names) == UNION { [1..k -> names \cup {"."}] : k \in 0..MaxLen }

\* the lookups of SecureConfigManager.get: a dotted path and the caller's
\* default, a number where the path may end at a number and a string or
\* None where it may end at a string
ConfigLookups ==
    ( (DottedPaths({"security", "max_filename_length"}) \cup {P_security_max_x, P_security_max_x \o <<".", "x">>})
      \X {0, 1} ) \cup
    ( (DottedPaths({"download_locations", "default"}) \cup {<<"download_locations", ".", "default", ".", "x">>})
      \X {None, S_etc} )

\* a base of three levels and an override that reaches its third level
DeepBase == "a" :> Dict( ("b" :> Dict(("c" :> Val(1)) @@ ("d" :> Val(2)))) @@ ("e" :> Val(3)) )

DeepUpdate == "a" :> Dict("b" :> Dict(("c" :> Val(4)) @@ ("f" :> Val(5))))

\* the overrides of _deep_merge: the user files, an empty one, a value in
\* the place of a mapping, a mapping in the place of a value, a new key
MergeUpdates ==
    { u.tree : u \in { u \in UserConfigs : u.exists } } \cup
    { NoSeen,
      "security" :> Val(0),
      "download_locations" :> Dict("default" :> Dict("deep" :> Val(S_etc))),
      "extra" :> Dict("k" :> Val(1)) }

\* the (base, update) arguments of _deep_merge
MergeInputs == ({default_config} \X MergeUpdates) \cup
               {<<DeepBase, DeepUpdate>>, <<DeepBase, NoSeen>>, <<NoSeen, DeepUpdate>>}

Opt(key, values) == { NoSeen } \cup { key :> v : v \in values }

\* the argument mappings of the tool calls
ToolArguments ==
    { NoSeen } \cup
    { ("url" :> "url") @@ o @@ l @@ r @@ t :
        o \in Opt("output_path", {S_legacy, S_tmp_dl_clips_movie, S_a_mp4}),
        l \in Opt("location_id", {"default", "nonexistent"}),
        r \in Opt("relative_path", {S_etc_passwd3, S_clips}),
        t \in Opt("filename_template", {S_default_template}) }

(***************************************************************************)
(* The state machine: a call is made when no response is pending, and the  *)
(* caller takes the response                                               *)
(***************************************************************************)
\* the threads that call get_locations on the one LocationManager
Threads == 1..NumThreads

\* a thread about to call get_locations
ThreadStart == [pc |-> "test", built |-> FALSE, locations |-> <<>>]

NoCall == [op |-> "none", args |-> <<>>]

Init ==
    /\ \E user \in UserConfigs : config = load_config(user)
    /\ validator = PathValidatorInit(config)
    /\ locations_cache = NoCache
    /\ fs = InitialFs
    /\ pc = "idle"
    /\ call = NoCall
    /\ result = <<>>
    /\ validated = NotValidated
    /\ extractor = ExtractorIdle
    /\ threads = [t \in Threads |-> ThreadStart]

\* the state after construction, the user files with a value of the wrong
\* type included
InitAnyConfig ==
    /\ \E user \in UserConfigs \cup {[exists |-> TRUE, tree |-> IllTypedTree]} :
          config = load_config(user)
    /\ validator = PathValidatorInit(config)
    /\ locations_cache = NoCache
    /\ fs = InitialFs
    /\ pc = "idle"
    /\ call = NoCall
    /\ result = <<>>
    /\ validated = NotValidated
    /\ extractor = ExtractorIdle
    /\ threads = [t \in Threads |-> ThreadStart]

\* PathValidator.validate_path(path, base_dir)
ValidatePath(path, base_dir) ==
    /\ pc = "idle"
    /\ pc' = "returned"
    /\ call' = [op |-> "validate_path", args |-> <<path, base_dir>>]
    /\ result' = validate_path(validator, fs.links, path, base_dir)
    /\ validated' = [called |-> TRUE, path |-> path, base_dir |-> base_dir]
    /\ UNCHANGED <<config, validator, locations_cache, fs, extractor, threads>>

\* LocationManager.get_locations()
GetLocations ==
    /\ pc = "idle"
    /\ pc' = "returned"
    /\ call' = [op |-> "get_locations", args |-> <<>>]
    /\ \E g \in {get_locations(config, locations_cache, fs)} :
          /\ locations_cache' = g.cache
          /\ fs' = g.fs
          /\ result' = IF g.raised THEN Raise("TypeError") ELSE g.cache.locations
    /\ UNCHANGED <<config, validator, validated, extractor, threads>>

\* LocationManager.validate_location(location_id)
ValidateLocation(location_id) ==
    /\ pc = "idle"
    /\ pc' = "returned"
    /\ call' = [op |-> "validate_location", args |-> <<location_id>>]
    /\ \E g \in {get_locations(config, locations_cache, fs)} :
          /\ locations_cache' = g.cache
          /\ fs' = g.fs
          /\ result' = IF g.raised THEN Raise("TypeError")
                       ELSE validate_location(g.cache.locations, location_id)
    /\ UNCHANGED <<config, validator, validated, extractor, threads>>

\* LocationManager.construct_download_path(location_id, relative_path,
\* filename_template)
ConstructDownloadPath(location_id, relative_path, filename_template) ==
    /\ pc = "idle"
    /\ pc' = "returned"
    /\ call' = [op |-> "construct_download_path",
                args |-> <<location_id, relative_path, filename_template>>]
    /\ \E g \in {get_locations(config, locations_cache, fs)} :
       \E c \in {IF g.raised THEN [result |-> Raise("TypeError"), validated |-> NotValidated]
                  ELSE construct_download_path(config, validator, g.cache.locations, g.fs.links,
                                               location_id, relative_path, filename_template)} :
          /\ locations_cache' = g.cache
          /\ fs' = g.fs
          /\ result' = c.result
          /\ validated' = c.validated
    /\ UNCHANGED <<config, validator, extractor, threads>>

\* PathValidator.sanitize_template_vars(template)
SanitizeTemplateVars(template) ==
    /\ pc = "idle"
    /\ pc' = "returned"
    /\ call' = [op |-> "sanitize_template_vars", args |-> <<template>>]
    /\ result' = sanitize_template_vars(template)
    /\ UNCHANGED <<config, validator, locations_cache, fs, validated, extractor, threads>>

\* SecureConfigManager.get(path, default)
ConfigGetValue(path, default) ==
    /\ pc = "idle"
    /\ pc' = "returned"
    /\ call' = [op |-> "get", args |-> <<path, default>>]
    /\ result' = [value |-> get(config, path, default)]
    /\ UNCHANGED <<config, validator, locations_cache, fs, validated, extractor, threads>>

\* SecureConfigManager._deep_merge(base, update)
DeepMerge(base, update) ==
    /\ pc = "idle"
    /\ pc' = "returned"
    /\ call' = [op |-> "deep_merge", args |-> <<base, update>>]
    /\ result' = merge_trees(base, update)
    /\ UNCHANGED <<config, validator, locations_cache, fs, validated, extractor, threads>>

\* handle_call_tool(name, arguments)
CallTool(name, arguments, ok) ==
    /\ pc = "idle"
    /\ pc' = "returned"
    /\ call' = [op |-> "call_tool", args |-> <<name, arguments>>]
    /\ \E h \in {handle_call_tool(name, arguments, ok)} :
          /\ extractor' = h.extractor
          /\ result' = h.response
    /\ UNCHANGED <<config, validator, locations_cache, fs, validated, threads>>

\* the caller takes the response
Return ==
    /\ pc = "returned"
    /\ pc' = "idle"
    /\ call' = NoCall
    /\ result' = <<>>
    /\ validated' = NotValidated
    /\ extractor' = ExtractorIdle
    /\ UNCHANGED <<config, validator, locations_cache, fs, threads>>

Next ==
    \/ \E path \in PathInputs, base_dir \in BaseDirs : ValidatePath(path, base_dir)
    \/ GetLocations
    \/ \E location_id \in LocationIds : ValidateLocation(location_id)
    \/ \E location_id \in LocationIds \ {"sys"}, relative_path \in RelativeInputs,
          filename_template \in TemplateInputs :
            ConstructDownloadPath(location_id, relative_path, filename_template)
    \/ \E name \in ToolNames \cup {"get_download_locations"}, arguments \in ToolArguments,
          ok \in BOOLEAN : CallTool(name, arguments, ok)
    \/ \E template \in SanitizeInputs : SanitizeTemplateVars(template)
    \/ \E lookup \in ConfigLookups : ConfigGetValue(lookup[1], lookup[2])
    \/ \E m \in MergeInputs : DeepMerge(m[1], m[2])
    \/ Return

Spec == Init /\ [][Next]_vars

SpecAnyConfig == InitAnyConfig /\ [][Next]_vars

\* the configuration store is given a new value of a security key between
\* two calls: config is a plain attribute of SecureConfigManager holding a
\* mutable dict, config_manager.config['security'][key] = value; no
\* PathValidator or LocationManager is constructed anew
ConfigAssign(key, value) ==
    /\ pc = "idle"
    /\ config' = deep_merge(config, "security" :> Dict(key :> Val(value)))
    /\ UNCHANGED <<validator, locations_cache, fs, pc, call, result, validated, extractor, threads>>

NextReconfigure ==
    \/ \E value \in {SmallMax, DefaultMaxFilenameLength} : ConfigAssign("max_filename_length", value)
    \/ \E value \in {{}, TestExtensions} : ConfigAssign("allowed_extensions", value)
    \/ \E value \in BOOLEAN : ConfigAssign("block_path_traversal", value)
    \/ \E path \in PathInputs, base_dir \in BaseDirs : ValidatePath(path, base_dir)
    \/ Return

SpecReconfigure == Init /\ [][NextReconfigure]_vars

(***************************************************************************)
(* get_locations called by several threads: a thread runs the statements   *)
(* of get_locations one at a time, and the threads interleave              *)
(***************************************************************************)
\* if self._locations_cache is None
ThreadTest(t) ==
    /\ threads[t].pc = "test"
    /\ threads' = [threads EXCEPT ![t].pc = IF locations_cache.none THEN "build" ELSE "return"]
    /\ UNCHANGED <<config, validator, locations_cache, fs, pc, call, result, validated, extractor>>

\* self._build_locations(): the directories are created and probed
ThreadBuild(t) ==
    /\ threads[t].pc = "build"
    /\ \E b \in {build_locations(config, fs)} :
          /\ fs' = b.fs
          /\ threads' = [threads EXCEPT ![t] = [pc |-> IF b.raised THEN "raised" ELSE "assign",
                                                 built |-> TRUE,
                                                 locations |-> b.locations]]
    /\ UNCHANGED <<config, validator, locations_cache, pc, call, result, validated, extractor>>

\* self._locations_cache = <the mapping built>
ThreadAssign(t) ==
    /\ threads[t].pc = "assign"
    /\ locations_cache' = [none |-> FALSE, locations |-> threads[t].locations]
    /\ threads' = [threads EXCEPT ![t].pc = "return"]
    /\ UNCHANGED <<config, validator, fs, pc, call, result, validated, extractor>>

\* return self._locations_cache
ThreadReturn(t) ==
    /\ threads[t].pc = "return"
    /\ threads' = [threads EXCEPT ![t] = [pc |-> "done", built |-> threads[t].built,
                                           locations |-> locations_cache.locations]]
    /\ UNCHANGED <<config, validator, locations_cache, fs, pc, call, result, validated, extractor>>

NextThreads ==
    \/ \E t \in Threads : ThreadTest(t)
    \/ \E t \in Threads : ThreadBuild(t)
    \/ \E t \in Threads : ThreadAssign(t)
    \/ \E t \in Threads : ThreadReturn(t)

SpecThreads == Init /\ [][NextThreads]_vars

(***************************************************************************)
(* Properties                                                              *)
(***************************************************************************)
\* the value of security.block_path_traversal
BlockTraversalOn == ConfigGet(config, <<"security", "block_path_traversal">>, TRUE)

\* a traversal sequence, "../" or "..\", occurs in the string
HasDotDotSep(s) == Contains(s, <<".", ".", "/">>) \/ Contains(s, <<".", ".", "\\">>)

\* C1: whenever the download_video tool has invoked the extractor with an
\* output path, that path is one the path validation accepts for a
\* configured writable location: it resolves to the location's directory or
\* below it.
C1_ExtractorOutputIsValidated ==
    extractor.invoked /\ extractor.operation = "download_video" /\ extractor.output_path # None
    => \E locations \in {build_locations(config, fs).locations} :
          \E id \in DOMAIN locations :
             /\ locations[id].writable
             /\ RealSegs(fs.links, locations[id].path)
                   \in Prefixes(RealSegs(fs.links, extractor.output_path))

\* C2: an accepted path is absolute and canonical (realpath leaves it as it
\* is), and the segments of the canonical base directory are a prefix of its
\* segments: it is the base or lies below it.
C2_Containment ==
    validated.called /\ result.valid
    => /\ result.path # <<>> /\ result.path[1] = Sep
       /\ Realpath(fs.links, result.path) = result.path
       /\ RealSegs(fs.links, ExpandUser(validated.base_dir)) \in Prefixes(FsPath(result.path))

\* C2 witness: a candidate through the symbolic link i of the base is
\* accepted as the path it resolves to, inside the base
C2_Witness ==
    /\ pc = "returned" /\ call.op = "validate_path"
    /\ call.args = << <<"i", "/", "a", ".", "a">>, S_tmp_dl >>
    /\ result.valid
    /\ result.path = S_tmp_dl \o <<"/", "a", "/", "a", ".", "a">>

\* C3: with security.block_path_traversal true, a candidate that contains
\* "../" or "..\" is rejected, as a traversal or as an escape, and never
\* accepted.
C3_TraversalRejected ==
    validated.called /\ BlockTraversalOn /\ HasDotDotSep(validated.path)
    => /\ ~result.valid
       /\ result.path = None
       /\ result.error.kind \in {"PathTraversalDetected", "PathEscapesBase"}

\* C3 witness: ".../" holds "../" and resolves inside the base; the screen
\* rejects it
C3_Witness ==
    /\ pc = "returned" /\ call.op = "validate_path"
    /\ call.args[1] = S_dots_sep
    /\ BlockTraversalOn
    /\ result.error.kind = "PathTraversalDetected"

\* the candidate handed to validate_path is an absolute path
AbsoluteValidated == validated.called /\ validated.path # <<>> /\ validated.path[1] = Sep

\* C4 (as stated): every absolute candidate is rejected as
\* AbsolutePathRejected, whatever else it contains and whatever the policy.
C4_AbsoluteRejectedAsAbsolute ==
    AbsoluteValidated => ~result.valid /\ result.error.kind = "AbsolutePathRejected"

\* C4 (amended): an absolute candidate is never accepted; it is rejected as
\* AbsolutePathRejected, except that with traversal enforcement on an
\* absolute candidate that holds "../" or "..\" is rejected by the earlier
\* screen as PathTraversalDetected.
C4_AbsoluteNeverAccepted ==
    AbsoluteValidated
    => /\ ~result.valid
       /\ result.path = None
       /\ result.error.kind = IF BlockTraversalOn /\ HasDotDotSep(validated.path)
                              THEN "PathTraversalDetected"
                              ELSE "AbsolutePathRejected"

\* C4 witness: with enforcement off, "/../etc" is rejected as absolute
C4_Witness ==
    /\ pc = "returned" /\ call.op = "validate_path"
    /\ call.args[1] = S_abs_trav
    /\ ~BlockTraversalOn
    /\ result.error.kind = "AbsolutePathRejected"

\* the location ids of the configuration
ConfiguredIds == DOMAIN ConfigGet(config, <<"download_locations">>, <<>>)

\* construct_download_path has returned
Constructed == pc = "returned" /\ call.op = "construct_download_path"

\* C5: construct_download_path with a location id that is not configured
\* returns UnknownLocation for every relative path and template, and
\* validate_path is not called.
C5_UnknownLocation ==
    Constructed /\ call.args[1] \notin ConfiguredIds
    => /\ ~result.valid
       /\ result.path = None
       /\ result.error.kind = "UnknownLocation"
       /\ ~validated.called

\* C5 witness: an unknown id with a traversal string is UnknownLocation
C5_Witness ==
    /\ Constructed
    /\ call.args = <<"nonexistent", S_dotdot_etc, S_passwd>>
    /\ result.error.kind = "UnknownLocation"

\* construct_download_path('default', '../../etc', 'passwd') has returned,
\* 'default' being a writable location
EtcPasswdConstructed ==
    /\ Constructed
    /\ call.args = <<"default", S_dotdot_etc, S_passwd>>
    /\ "default" \in DOMAIN locations_cache.locations
    /\ locations_cache.locations["default"].writable

\* C6 (as stated): construct_download_path('default', '../../etc', 'passwd')
\* on a writable location is rejected with PathEscapesBase.
C6_EtcPasswdEscapesBase ==
    EtcPasswdConstructed => ~result.valid /\ result.error.kind = "PathEscapesBase"

\* C6 (amended): construct_download_path('default', '../../etc', 'passwd')
\* on a writable location is rejected: with PathTraversalDetected when
\* traversal enforcement is on, with PathEscapesBase when it is off.
C6_EtcPasswdRejected ==
    EtcPasswdConstructed
    => /\ ~result.valid
       /\ result.path = None
       /\ result.error.kind = IF BlockTraversalOn THEN "PathTraversalDetected"
                              ELSE "PathEscapesBase"

\* C6 witness: with enforcement off the containment test rejects it
C6_Witness ==
    /\ EtcPasswdConstructed
    /\ ~BlockTraversalOn
    /\ result.error.kind = "PathEscapesBase"

\* a string without a character of the sanitizer's denylist
NoDangerousChar(s) == \A i \in 1..Len(s) : \A k \in 1..Len(dangerous_chars) : s[i] # dangerous_chars[k]

\* the candidate construct_download_path is to build from its arguments
ExpectedCandidate(relative_path, filename_template) ==
    IF relative_path \notin {None, <<>>} /\ filename_template \notin {None, <<>>}
    THEN PathJoin(relative_path, filename_template)
    ELSE IF relative_path \notin {None, <<>>} THEN relative_path
    ELSE IF filename_template \notin {None, <<>>} THEN filename_template
    ELSE ConfigGet(config, <<"ytdlp", "default_filename_template">>, S_default_template)

\* a benign candidate c for the base directory B: B is absolute and
\* canonical, c is made of plain segments (none empty, "." or ".."), no
\* symbolic link lies on the way, c has no denylisted character and no
\* traversal sequence, and its last segment passes the length and
\* extension policy
Benign(c, B) ==
    LET segs == SplitSep(c)
        last == segs[Len(segs)]
        allowed == ConfigGet(config, <<"security", "allowed_extensions">>, {})
    IN /\ B # <<>> /\ B[1] = Sep /\ ToStr(FsPath(B)) = B
       /\ c # <<>> /\ NoDangerousChar(c) /\ ~HasDotDotSep(c)
       /\ \A i \in 1..Len(segs) : segs[i] \notin { <<>>, <<".">>, <<".", ".">> }
       /\ \A p \in Prefixes(FsPath(B) \o segs) : p \notin DOMAIN fs.links
       /\ Len(last) <= ConfigGet(config, <<"security", "max_filename_length">>, 255)
       /\ (allowed = {} \/ ExtOf(last) = <<>> \/ ExtOf(last) \in allowed)

\* C7: on a writable location with base directory B, the candidate handed
\* to validate_path is relative_path joined with filename_template when both
\* are given (not None, not empty), the one given when only one is, and the
\* configured default template when neither is; for a benign candidate the
\* result is Accepted(B/candidate).
C7_CandidateComposition ==
    Constructed /\ validated.called
    => \E c \in {ExpectedCandidate(call.args[2], call.args[3])} :
          /\ NoDangerousChar(c) => validated.path = c
          /\ Benign(c, validated.base_dir)
                => result = Accepted(validated.base_dir \o <<Sep>> \o c)

\* C7 witness: base /tmp/dl with ('clips', 'movie.mp4') is accepted as
\* /tmp/dl/clips/movie.mp4
C7_Witness ==
    /\ Constructed
    /\ call.args = <<"default", S_clips, S_movie_mp4>>
    /\ validated.base_dir = S_tmp_dl
    /\ result = Accepted(S_tmp_dl_clips_movie)

\* C8: under the built-in policy (default extension allow-list, default
\* template) construct_download_path on the writable 'default' location is
\* accepted with no relative path and no template, and with a sub-directory
\* and the template '%(title)s.%(ext)s'.
C8_DefaultTemplateAccepted ==
    /\ Constructed
    /\ call.args \in { <<"default", None, None>>, <<"default", S_subdir, S_default_template>> }
    /\ ConfigGet(config, <<"security", "allowed_extensions">>, {}) = default_extensions
    /\ ConfigGet(config, <<"ytdlp", "default_filename_template">>, S_default_template)
          = S_default_template
    /\ "default" \in DOMAIN locations_cache.locations
    /\ locations_cache.locations["default"].writable
    => result.valid

\* the final component of the canonical composed path of the candidate
\* handed to validate_path
ValidatedFilename ==
    Basename(Realpath(fs.links, PathJoin(ExpandUser(validated.base_dir), validated.path)))

\* the value of security.max_filename_length
MaxFilenameLength == ConfigGet(config, <<"security", "max_filename_length">>, 255)

\* the value of security.allowed_extensions
AllowedExtensions == ConfigGet(config, <<"security", "allowed_extensions">>, {})

\* C9: for a candidate that passes the traversal, absolute-path and
\* containment steps, validate_path rejects with FilenameTooLong iff the
\* final component is longer than security.max_filename_length; a final
\* component of at most that length (exactly that length included) is
\* accepted unless the extension step rejects it.
C9_FilenameLengthBoundary ==
    validated.called
    /\ result.error.kind \notin {"PathTraversalDetected", "AbsolutePathRejected",
                                 "PathValidationError", "PathEscapesBase"}
    => \E filename \in {ValidatedFilename} :
          /\ Len(filename) > MaxFilenameLength <=> result.error.kind = "FilenameTooLong"
          /\ Len(filename) <= MaxFilenameLength /\ result.error.kind # "ExtensionNotAllowed"
                => result.valid /\ Basename(result.path) = filename

\* C9 witness: a name of exactly the maximum length is accepted
C9_Witness ==
    /\ pc = "returned" /\ call.op = "validate_path"
    /\ call.args[1] = NameOfLen(MaxFilenameLength)
    /\ MaxFilenameLength = SmallMax
    /\ result.valid
    /\ Len(Basename(result.path)) = MaxFilenameLength

\* C10: for a candidate that passes the traversal, absolute-path,
\* containment and length steps: with an empty allow-list it is accepted;
\* with a non-empty allow-list it is accepted iff the extension of the final
\* component (lower-cased, without the dot) is empty or in the allow-list,
\* and rejected with ExtensionNotAllowed otherwise.
C10_ExtensionAllowList ==
    validated.called
    /\ result.error.kind \notin {"PathTraversalDetected", "AbsolutePathRejected",
                                 "PathValidationError", "PathEscapesBase", "FilenameTooLong"}
    => \E ext \in {ExtOf(ValidatedFilename)} :
          /\ AllowedExtensions = {} => result.valid
          /\ AllowedExtensions # {} => (result.valid <=> ext = <<>> \/ ext \in AllowedExtensions)
          /\ ~result.valid => result.error.kind = "ExtensionNotAllowed"
                              /\ result.error.info = <<ext>>

\* C10 witness: 'payload.sh' is rejected with ExtensionNotAllowed when
\* 'mp4' is allowed and 'sh' is not
C10_Witness ==
    /\ pc = "returned" /\ call.op = "validate_path"
    /\ call.args[1] = S_payload_sh
    /\ <<"m", "p", "4">> \in AllowedExtensions
    /\ <<"s", "h">> \notin AllowedExtensions
    /\ result.error.kind = "ExtensionNotAllowed"

\* C11: template sanitization is idempotent: sanitizing the string that
\* sanitize_template_vars(t) returned gives that string back, for every t.
C11_SanitizeIdempotent ==
    pc = "returned" /\ call.op = "sanitize_template_vars"
    => sanitize_template_vars(result) = result

\* C11 witness: a template with a dangerous character has been sanitized
\* to a different string
C11_Witness ==
    /\ pc = "returned" /\ call.op = "sanitize_template_vars"
    /\ ~NoDangerousChar(call.args[1])
    /\ result # call.args[1]
    /\ NoDangerousChar(result)

\* C12: a download_video tool call whose location_id is not a configured
\* location, or whose relative_path holds a traversal sequence, returns a
\* response with success = false and an error, and the extractor is not
\* invoked for it.
C12_InvalidDownloadRefused ==
    pc = "returned" /\ call.op = "call_tool" /\ call.args[1] = "download_video"
    /\ \/ /\ "location_id" \in DOMAIN call.args[2]
          /\ call.args[2]["location_id"] \notin ConfiguredIds
       \/ /\ "relative_path" \in DOMAIN call.args[2]
          /\ HasDotDotSep(call.args[2]["relative_path"])
    => /\ ~result.raised /\ ~result.success /\ "error" \in result.keys
       /\ ~extractor.invoked

\* C13: handle_call_tool('get_download_locations', {}) returns a result
\* with success = true and a 'locations' mapping, instead of failing as an
\* unknown tool.
C13_GetDownloadLocationsHandled ==
    pc = "returned" /\ call.op = "call_tool" /\ call.args[1] = "get_download_locations"
    => ~result.raised /\ result.success /\ "locations" \in result.keys

\* every key of the sequence resolves, one after the other, from the node
\* on: the node is a mapping that holds the first key, and so on below it
RECURSIVE Resolves(_, _)
Resolves(node, keys) ==
    keys = <<>> \/ ( /\ node.dict
                     /\ Head(keys) \in DOMAIN node.items
                     /\ Resolves(node.items[Head(keys)], Tail(keys)) )

\* the node the keys lead to, when they resolve
RECURSIVE NodeAt(_, _)
NodeAt(node, keys) == IF keys = <<>> THEN node
                      ELSE NodeAt(node.items[Head(keys)], Tail(keys))

\* C14: get(dotted_path, default) returns the stored value when every
\* segment of the path resolves, and the caller's default when a segment
\* is missing or the node reached is not a mapping; it returns a value (it
\* does not raise) for every path and every configuration tree.
C14_GetWalksOrDefaults ==
    pc = "returned" /\ call.op = "get"
    => \E keys \in {DottedKeys(call.args[1])} :
          /\ DOMAIN result = {"value"}
          /\ Resolves(Dict(config), keys) => result.value = ValueOf(NodeAt(Dict(config), keys))
          /\ ~Resolves(Dict(config), keys) => result.value = call.args[2]

\* C14 witness: a path that goes below a stored number has returned the
\* caller's default
C14_Witness ==
    /\ pc = "returned" /\ call.op = "get"
    /\ call.args[1] = P_security_max_x
    /\ call.args[2] = 1
    /\ result.value = 1
    /\ Resolves(Dict(config), <<"security", "max_filename_length">>)

\* merged is the deep merge of base and update, key by key: a key of the
\* update holds the merge of the two mappings when both sides are
\* mappings and the update's node otherwise; a key of the base alone holds
\* the base's node
RECURSIVE MergedKeyByKey(_, _, _)
MergedKeyByKey(base, update, merged) ==
    /\ DOMAIN merged = DOMAIN base \cup DOMAIN update
    /\ \A key \in DOMAIN update :
          IF key \in DOMAIN base /\ base[key].dict /\ update[key].dict
          THEN merged[key].dict
               /\ MergedKeyByKey(base[key].items, update[key].items, merged[key].items)
          ELSE merged[key] = update[key]
    /\ \A key \in DOMAIN base \ DOMAIN update : merged[key] = base[key]

\* C15: the tree _deep_merge(base, update) returns holds, for every key of
\* the update, the recursive merge when both values are mappings and the
\* update's value otherwise, and for every key of the base alone the
\* base's value, at every nesting level; the base tree passed in is the
\* same after the call.
C15_DeepMerge ==
    pc = "returned" /\ call.op = "deep_merge"
    => /\ MergedKeyByKey(call.args[1], call.args[2], result.merged)
       /\ result.merged = deep_merge(call.args[1], call.args[2])
       /\ result.base = call.args[1]

\* C15 witness: a merge that reached the third level of the base: the key
\* of the update is replaced, its sibling is kept, a new key is added
C15_Witness ==
    /\ pc = "returned" /\ call.op = "deep_merge"
    /\ call.args = <<DeepBase, DeepUpdate>>
    /\ result.merged["a"].items["b"].items =
          ("c" :> Val(4)) @@ ("d" :> Val(2)) @@ ("f" :> Val(5))
    /\ result.merged["a"].items["e"] = Val(3)
    /\ result.base = DeepBase

\* the configuration was loaded from a user file whose security table
\* sets block_path_traversal and nothing else
LoadedSecurityOnly == config = load_config([exists |-> TRUE, tree |-> SecurityOnlyTree])

\* get('security.max_filename_length', default) has returned
MaxLengthLookedUp ==
    /\ pc = "returned" /\ call.op = "get"
    /\ call.args[1] = <<"security", ".", "max_filename_length">>

\* C16 as stated: when the user file's security table holds a single key,
\* the lookup of another security key returns the caller's default.
C16_SecurityDefaultsDropped ==
    LoadedSecurityOnly /\ MaxLengthLookedUp => result.value = call.args[2]

\* C16: when the user file's security table holds a single key, the
\* loaded configuration holds the user's value for that key and the
\* built-in value for every other security key, and the lookup of another
\* security key returns the built-in value, not the caller's default.
C16_SecurityDefaultsKept ==
    LoadedSecurityOnly
    => /\ config["security"].items["block_path_traversal"] = Val(FALSE)
       /\ \A key \in DOMAIN default_config["security"].items \ {"block_path_traversal"} :
             /\ key \in DOMAIN config["security"].items
             /\ config["security"].items[key] = default_config["security"].items[key]
       /\ MaxLengthLookedUp => result.value = DefaultMaxFilenameLength

\* C16 witness: with such a user file, the lookup of the filename length
\* with the default 0 has returned the built-in 255
C16_Witness ==
    /\ LoadedSecurityOnly /\ MaxLengthLookedUp
    /\ call.args[2] = 0
    /\ result.value = 255
    /\ ~BlockTraversalOn

\* the string configured for a location id
ConfiguredPath(id) == ValueOf(ConfigGet(config, <<"download_locations">>, <<>>)[id])

\* C17: once the locations are built, the mapping holds exactly one entry
\* per configured location id, each with its configured string as
\* 'original'; a location whose directory exists but is not writable, or
\* could not be created, is in the mapping with writable = false; and
\* get_locations returns that mapping.
C17_EveryLocationRecorded ==
    ~locations_cache.none
    => /\ DOMAIN locations_cache.locations = ConfiguredIds
       /\ \A id \in ConfiguredIds :
             /\ locations_cache.locations[id].original = ConfiguredPath(id)
             /\ locations_cache.locations[id].path = ExpandUser(ConfiguredPath(id))
             /\ locations_cache.locations[id].writable <=> AccessW(fs, ExpandUser(ConfiguredPath(id)))
       /\ pc = "returned" /\ call.op = "get_locations" => result = locations_cache.locations

\* C17 witness: get_locations has returned a writable location, one whose
\* directory exists and is read-only, and one whose directory could not
\* be created
C17_Witness ==
    /\ pc = "returned" /\ call.op = "get_locations"
    /\ DOMAIN result = {"default", "ro", "sys"}
    /\ result["default"].writable
    /\ ~result["sys"].writable /\ FsPath(S_etc) \in fs.dirs /\ result["sys"].original = S_etc
    /\ ~result["ro"].writable /\ FsPath(S_ro_x) \notin fs.dirs /\ result["ro"].original = S_ro_x

\* C18: validate_location(id) returns the location's base path iff id is
\* a configured location whose writable flag is true, UnknownLocation when
\* id is not configured and LocationNotWritable when it is configured and
\* not writable; construct_download_path for a location that is not
\* writable returns that rejection, without validating any path.
C18_ValidateLocation ==
    /\ pc = "returned" /\ call.op = "validate_location"
       => \E id \in {call.args[1]} :
             /\ result.valid <=> id \in ConfiguredIds /\ locations_cache.locations[id].writable
             /\ result.valid => result.path = locations_cache.locations[id].path
             /\ id \notin ConfiguredIds => result.error.kind = "UnknownLocation"
             /\ id \in ConfiguredIds /\ ~locations_cache.locations[id].writable
                   => result.error.kind = "LocationNotWritable"
    /\ Constructed /\ call.args[1] \in ConfiguredIds
       /\ ~locations_cache.locations[call.args[1]].writable
       => ~result.valid /\ result.error.kind = "LocationNotWritable" /\ ~validated.called

\* C18 witness: validate_location has rejected a configured location whose
\* directory is read-only
C18_Witness ==
    /\ pc = "returned" /\ call.op = "validate_location"
    /\ call.args[1] = "sys"
    /\ "sys" \in ConfiguredIds
    /\ ~locations_cache.locations["sys"].writable
    /\ result.error.kind = "LocationNotWritable"

\* C19: the UnknownLocation rejection and the LocationNotWritable
\* rejection each carry the list of the locations that are valid for the
\* caller, the configured locations that are writable.
C19_FailuresListValidLocations ==
    pc = "returned" /\ call.op \in {"validate_location", "construct_download_path"}
    /\ result.error.kind \in {"UnknownLocation", "LocationNotWritable"}
    => result.error.info =
          << { id \in ConfiguredIds : locations_cache.locations[id].writable } >>

\* C20: when several threads call get_locations on a LocationManager
\* whose cache is not built, the location build runs at most once.
C20_BuildsAtMostOnce ==
    Cardinality({ t \in Threads : threads[t].built }) <= 1

\* C21: the location cache is built lazily and once. Before the first
\* call that needs the locations nothing is built (the cache is empty and
\* no directory has been created); the cache is filled by a get_locations,
\* validate_location or construct_download_path call, which creates the
\* directories once per configured location; once filled, no step changes
\* the cache or the filesystem (no directory is created again), and
\* get_locations returns the cached mapping.
C21_CacheBuiltOnce ==
    [][ /\ locations_cache.none => fs = InitialFs
        /\ locations_cache.none /\ ~locations_cache'.none
              => /\ call'.op \in {"get_locations", "validate_location", "construct_download_path"}
                 /\ fs'.makedirs = Cardinality(ConfiguredIds)
        /\ ~locations_cache.none => locations_cache' = locations_cache /\ fs' = fs
        /\ ~locations_cache.none /\ call'.op = "get_locations"
              => result' = locations_cache.locations ]_vars

\* C21 witness: get_locations has returned the mapping of three locations
\* and os.makedirs has been called three times in all
C21_Witness ==
    /\ pc = "returned" /\ call.op = "get_locations"
    /\ ~locations_cache.none
    /\ result = locations_cache.locations
    /\ Cardinality(DOMAIN result) = 3
    /\ fs.makedirs = 3

\* C22: validate_path and construct_download_path return a (valid, path,
\* error) result for every input and every configured value; they do not
\* raise.
C22_RejectionsAreValues ==
    pc = "returned" /\ call.op \in {"validate_path", "construct_download_path"}
    => DOMAIN result = {"valid", "path", "error"}

\* the rejection kinds of the taxonomy
TaxonomyKinds == { "PathTraversalDetected", "AbsolutePathRejected", "PathEscapesBase",
                   "FilenameTooLong", "ExtensionNotAllowed", "UnknownLocation",
                   "LocationNotWritable" }

\* C23: every result of validate_path and construct_download_path is
\* either accepted, with an absolute path and no error, or rejected, with
\* no path and a reason that is one of the taxonomy kinds.
C23_ResultsInTaxonomy ==
    pc = "returned" /\ call.op \in {"validate_path", "construct_download_path"}
    => \/ result.valid /\ result.path # None /\ IsAbs(result.path) /\ result.error = NoError
       \/ ~result.valid /\ result.path = None /\ result.error.kind \in TaxonomyKinds

\* C24: every base path held in the location cache is an absolute,
\* tilde-expanded, canonical path.
C24_BasePathsCanonical ==
    ~locations_cache.none
    => \A id \in DOMAIN locations_cache.locations :
          \E base_path \in {locations_cache.locations[id].path} :
             /\ IsAbs(base_path)
             /\ ExpandUser(base_path) = base_path
             /\ Realpath(fs.links, base_path) = base_path

\* validate_path(path, base_dir) has returned, for a path and a policy
\* the validator holds
ValidatePathReturned(path, block) ==
    /\ pc = "returned" /\ call.op = "validate_path"
    /\ call.args[1] = path
    /\ validator.block_traversal = block

\* C25 as stated: with traversal enforcement on, 'my..file.mp4' is rejected
\* with PathTraversalDetected.
C25_DotsInNameRejected ==
    ValidatePathReturned(S_my_file_mp4, TRUE) => result.error.kind = "PathTraversalDetected"

\* C25: with traversal enforcement on, the textual screen rejects a
\* candidate iff it holds two dots followed by a separator ("../" or
\* "..\"), also when the candidate resolves inside the base (as
\* 'a/../b.mp4' does); two dots inside a filename do not match, and
\* 'my..file.mp4' is accepted when the length and extension policy allow
\* it.
C25_ScreenNeedsSeparator ==
    /\ validated.called /\ validator.block_traversal
       => (result.error.kind = "PathTraversalDetected" <=> HasDotDotSep(validated.path))
    /\ ValidatePathReturned(S_my_file_mp4, TRUE)
       /\ validator.max_filename_length >= Len(S_my_file_mp4)
       /\ validator.allowed_extensions \in {{}, default_extensions}
       => /\ result.valid
          /\ result.path = PathJoin(Realpath(fs.links, ExpandUser(call.args[2])), S_my_file_mp4)

\* C25 witness: with enforcement on, 'my..file.mp4' has been accepted
C25_Witness ==
    /\ ValidatePathReturned(S_my_file_mp4, TRUE)
    /\ call.args[2] = S_tmp_dl
    /\ result.valid
    /\ result.path = PathJoin(S_tmp_dl, S_my_file_mp4)

\* the steps of validate_path the candidate handed to it violates, each one
\* taken by itself (the canonical paths are looked at only for a candidate
\* realpath can resolve)
ViolatedSteps ==
    LET path == validated.path
        base == ExpandUser(validated.base_dir)
        unresolvable == \E i \in 1..Len(path) : path[i] = Nul
        ext == ExtOf(ValidatedFilename)
    IN  [ traversal |-> validator.block_traversal /\ HasDotDotSep(path),
          absolute |-> path # <<>> /\ path[1] = Sep,
          unresolvable |-> unresolvable,
          escapes |-> ~unresolvable
                      /\ RealSegs(fs.links, base) \notin Prefixes(RealSegs(fs.links, PathJoin(base, path))),
          too_long |-> ~unresolvable /\ Len(ValidatedFilename) > validator.max_filename_length,
          extension |-> ~unresolvable /\ validator.allowed_extensions # {}
                        /\ ext # <<>> /\ ext \notin validator.allowed_extensions ]

\* the reason of the earliest violated step, in the order of validate_path
EarliestViolation(violated) ==
    IF violated.traversal THEN "PathTraversalDetected"
    ELSE IF violated.absolute THEN "AbsolutePathRejected"
    ELSE IF violated.unresolvable THEN "PathValidationError"
    ELSE IF violated.escapes THEN "PathEscapesBase"
    ELSE IF violated.too_long THEN "FilenameTooLong"
    ELSE IF violated.extension THEN "ExtensionNotAllowed"
    ELSE "None"

\* C26: validate_path reports the reason of the earliest violated step in
\* the order traversal screen, absolute-path rejection, containment,
\* filename length, extension allow-list (a candidate that violates none is
\* accepted); and a rejection by the traversal screen or the absolute-path
\* test is decided without the filesystem: the result is the same with no
\* symbolic link at all, a candidate realpath could not resolve included.
C26_EarliestViolationReported ==
    validated.called /\ call.op = "validate_path"
    => \E violated \in {ViolatedSteps} :
          /\ result.error.kind = EarliestViolation(violated)
          /\ violated.traversal \/ violated.absolute
                => result = validate_path(validator, <<>>, validated.path, validated.base_dir)

\* C26 witness: 'payload.sh' is too long and has a disallowed extension,
\* and FilenameTooLong is the reason reported
C26_Witness ==
    /\ pc = "returned" /\ call.op = "validate_path"
    /\ call.args[1] = S_payload_sh
    /\ ViolatedSteps.too_long /\ ViolatedSteps.extension
    /\ result.error.kind = "FilenameTooLong"

\* C27: with traversal enforcement off, a relative candidate realpath can
\* resolve is rejected with PathEscapesBase iff its canonical composed path
\* is neither the canonical base nor below it, whether it got there through
\* ".." or through a symbolic link; and 'a/../b.mp4', which resolves inside
\* the base, is accepted as <base>/b.mp4 when the length and extension
\* policy allow it.
C27_ContainmentWithoutScreen ==
    validated.called /\ call.op = "validate_path" /\ ~validator.block_traversal
    => \E violated \in {ViolatedSteps} :
          /\ ~violated.absolute /\ ~violated.unresolvable
                => (violated.escapes <=> result.error.kind = "PathEscapesBase")
          /\ violated.escapes => ~result.valid
          /\ validated.path = S_a_up_b_mp4 /\ ~violated.too_long /\ ~violated.extension
                => /\ result.valid
                   /\ result.path = PathJoin(Realpath(fs.links, ExpandUser(validated.base_dir)),
                                              <<"b", ".", "m", "p", "4">>)

\* C27 witness: with enforcement off, 'a/../b.mp4' has been accepted as
\* /tmp/dl/b.mp4
C27_Witness ==
    /\ ValidatePathReturned(S_a_up_b_mp4, FALSE)
    /\ call.args[2] = S_tmp_dl
    /\ result.valid
    /\ result.path = PathJoin(S_tmp_dl, <<"b", ".", "m", "p", "4">>)

\* C28: a validate_path call applies the filename length, the extension
\* allow-list and the traversal-enforcement flag the configuration store
\* holds when the call is made: its result is that of a validator whose
\* policy is the store's present one.
C28_PolicyReadPerCall ==
    validated.called /\ call.op = "validate_path"
    => result = validate_path(PathValidatorInit(config), fs.links,
                              validated.path, validated.base_dir)

\* s with "_" at the places of its denylisted characters and every other
\* character where it was
Underscored(s) ==
    [i \in 1..Len(s) |-> IF \E k \in 1..Len(dangerous_chars) : s[i] = dangerous_chars[k]
                          THEN "_" ELSE s[i]]

\* C29: sanitize_template_vars returns its argument with "_" at the place
\* of every denylisted character and every other character (separators and
\* %(...)s tokens included) left where it was, so the result has the length
\* of the argument and no denylisted character; and the candidate
\* construct_download_path hands to validate_path is the composed candidate
\* sanitized as a whole, so it holds no denylisted character.
C29_SanitizeInPlace ==
    /\ pc = "returned" /\ call.op = "sanitize_template_vars"
       => /\ result = Underscored(call.args[1])
          /\ Len(result) = Len(call.args[1])
          /\ NoDangerousChar(result)
    /\ Constructed /\ validated.called
       => /\ validated.path = Underscored(ExpectedCandidate(call.args[2], call.args[3]))
          /\ NoDangerousChar(validated.path)

\* C29 witness: 'a|b;c/%(title)s.%(ext)s' has been sanitized to
\* 'a_b_c/%(title)s.%(ext)s'
C29_Witness ==
    /\ pc = "returned" /\ call.op = "sanitize_template_vars"
    /\ call.args[1] = PathJoin(S_pipe, S_default_template)
    /\ result = PathJoin(<<"a", "_", "b", "_", "c">>, S_default_template)

\* C30: a relative candidate that passes the traversal screen and whose
\* canonical path begins with the characters of the canonical base without
\* being the base or a path below it (the base is followed by a character
\* other than the separator) is rejected with PathEscapesBase.
C30_SiblingPrefixRejected ==
    validated.called /\ call.op = "validate_path"
    => \E violated \in {ViolatedSteps} :
          ~violated.traversal /\ ~violated.absolute /\ ~violated.unresolvable
          => \E normalized \in {Realpath(fs.links, PathJoin(ExpandUser(validated.base_dir),
                                                             validated.path))},
                base_real \in {Realpath(fs.links, ExpandUser(validated.base_dir))} :
                   /\ StartsWith(normalized, base_real)
                   /\ Len(normalized) > Len(base_real)
                   /\ normalized[Len(base_real) + 1] # Sep
                   => ~result.valid /\ result.error.kind = "PathEscapesBase"

\* C30 witness: for the base /tmp/dl, 's/x.mp4' resolves through the link s
\* to /tmp/dl2/x.mp4 and has been rejected with PathEscapesBase
C30_Witness ==
    /\ pc = "returned" /\ call.op = "validate_path"
    /\ call.args = <<S_s_x_mp4, S_tmp_dl>>
    /\ Realpath(fs.links, PathJoin(S_tmp_dl, S_s_x_mp4)) = PathJoin(S_tmp_dl2, <<"x", ".", "m", "p", "4">>)
    /\ result.error.kind = "PathEscapesBase"

====
